---- MODULE Spec2Model ----
(***************************************************************************)
(* Model of BatchExportSelected.py: the two export operators               *)
(* (batch_export_obj, batch_export_stl) and check_export, run against a    *)
(* host scene (objects, collections, selection), the project's save state, *)
(* the scene options of PROPS and a filesystem.                            *)
(*                                                                         *)
(* Every call to a host exporter, every makedirs and every self.report is  *)
(* appended to `log`, the history of the current run, with the selection   *)
(* and the directories that existed at that moment.                        *)
(*                                                                         *)
(* Environment: the options, the selection and the host's iteration order  *)
(* are chosen before the first invocation; the user may save the project   *)
(* between invocations and selects the same objects again after a run.     *)
(* The handlers run to completion on the host's main thread, so their      *)
(* steps never interleave with another handler.                            *)
(*                                                                         *)
(* Paths are kept structured (project directory, sub directory, file      *)
(* name, extension); the separator written into the strings is not         *)
(* modelled.  The host exporters are modelled by the files they write:     *)
(* export_mesh.stl writes its file(s) for whatever is selected, whatever   *)
(* the type of the objects.                                                *)
(***************************************************************************)
EXTENDS Integers, Sequences, FiniteSets

(* ------------------------------ bounds -------------------------------- *)
NumObjects == 5
NumCollections == 3
MaxRuns == 2

(* ---------------------------- host scene ------------------------------ *)
Objects == 1..NumObjects
Collections == 1..NumCollections

\* obj.type: every fourth object is an empty, the others are meshes.
ObjType(o) == IF o % 4 = 0 THEN "EMPTY" ELSE "MESH"

\* obj.name.  Names are unique per library only: the last object is linked
\* from a library and carries the name of object 1.
ObjName(o) == IF o = NumObjects THEN 1 ELSE o

\* collection.name.  The last collection is linked from a library and
\* carries the name of collection 1.
CollName(c) == IF c = NumCollections THEN 1 ELSE c

\* mesh.users_collection: the collections the object is directly linked to.
\* Object 2 is linked to two collections.
users_collection(o) ==
    {((o - 1) % NumCollections) + 1} \cup (IF o = 2 THEN {1} ELSE {})

\* collection.children: collection 2 is nested in collection 1.
children(c) == IF c = 1 /\ NumCollections >= 2 THEN {2} ELSE {}

\* collection.objects: the objects directly linked to the collection.
objects(c) == {o \in Objects : c \in users_collection(o)}

\* collection.all_objects: the collection's objects and those of its
\* children, recursively.
RECURSIVE all_objects(_)
all_objects(c) == objects(c) \cup UNION {all_objects(k) : k \in children(c)}

\* bpy.path.display_name_from_filepath(blend_data.filepath)
ProjectName == 0

\* Values of scene.export_dir ('exports' is the default of PROPS).
ExportDirs == {"exports", "out"}

VARIABLES
    is_saved,         \* context.blend_data.is_saved
    as_batch_chk,     \* scene.as_batch_chk
    as_collection,    \* scene.as_collection
    export_dir,       \* scene.export_dir
    sel_order,        \* the host's iteration order of selected_objects
    selected,         \* the host's selection: the set of selected objects
    dirs,             \* filesystem: the directories that exist
    files,            \* filesystem: the files that exist
    pc,               \* position of the running handler
    op,               \* the operator of the current (or last) run
    basedir,          \* local basedir
    meshes,           \* the part of the `meshes` iterator not yet consumed
    collection_list,  \* local collection_list
    fname,            \* local fname
    log,              \* history of the current run
    raised,           \* the current run ended with an uncaught exception
    sel0,             \* the selection at the first invocation
    dirs0,            \* dirs at the invocation of the current run
    files0,           \* files at the invocation of the current run
    runs,             \* number of invocations so far
    prev              \* outcome of the previous run

vars == <<is_saved, as_batch_chk, as_collection, export_dir, sel_order,
          selected, dirs, files, pc, op, basedir, meshes, collection_list,
          fname, log, raised, sel0, dirs0, files0, runs, prev>>

scene == <<as_batch_chk, as_collection, export_dir, sel_order, sel0>>
locals == <<basedir, meshes, collection_list, fname>>

(* ------------------------------ paths --------------------------------- *)
NoDir == [project |-> "", sub |-> ""]

\* bpy.path.abspath(f'//{output_dir}\\'): the project directory joined
\* with the sub directory.
abspath(output_dir) == [project |-> "//", sub |-> output_dir]

\* os.path.join(basedir, f'{name}.{ext}') and f'{basedir}\\{fname}.stl'
join(dir, name, ext) == [dir |-> dir, name |-> name, ext |-> ext]

(* --------------------------- host operators --------------------------- *)
\* os.makedirs(basedir, exist_ok=True)
makedirs_skipped(d, path) == d
makedirs(d, path) == d \cup {path}

\* bpy.ops.object.select_all(action='DESELECT')
select_all_kept(sel) == sel
select_all_deselect(sel) == {}

\* obj.select_set(state)
select_set(sel, o, state) == IF state THEN sel \cup {o} ELSE sel \ {o}

\* filter(lambda var: var.type == 'MESH', objs)
filter_any(objs) == objs
filter_meshes(objs) == {o \in objs : ObjType(o) = "MESH"}

\* bpy.ops.wm.obj_export(filepath=...): writes the one file.
obj_export_written(filepath) == {filepath}

\* bpy.ops.export_mesh.stl(filepath=basedir, batch_mode='OBJECT'): the host
\* exporter writes one file per selected object, named after the object.
stl_batch_written(dir, sel) == {join(dir, ObjName(o), "stl") : o \in sel}

\* bpy.ops.export_mesh.stl(filepath=..., batch_mode='OFF'): one merged file.
stl_merged_written(filepath) == {filepath}

\* next element of an iteration in the host's order
NextOf(S) == IF sel_order = "asc"
             THEN CHOOSE x \in S : \A y \in S : x <= y
             ELSE CHOOSE x \in S : \A y \in S : x >= y

(* ------------------------------ events -------------------------------- *)
NoFile == join(NoDir, ProjectName, "")

MakedirsEvent(path) ==
    [kind |-> "makedirs", level |-> "", dir |-> path, filepath |-> NoFile,
     mode |-> "", selected |-> {}, written |-> {}, dirs |-> {}]

ExportEvent(mode, dir, filepath, sel, written, d) ==
    [kind |-> "export", level |-> "", dir |-> dir, filepath |-> filepath,
     mode |-> mode, selected |-> sel, written |-> written, dirs |-> d]

ReportEvent(level, dir) ==
    [kind |-> "report", level |-> level, dir |-> dir, filepath |-> NoFile,
     mode |-> "", selected |-> {}, written |-> {}, dirs |-> {}]

(* ----------------------------- check_export --------------------------- *)
\* check_export's first result
check_export_result == is_saved

\* check_export's second result
check_export_basedir == IF is_saved THEN abspath(export_dir) ELSE NoDir

\* the directories after check_export
check_export_always_makedirs == makedirs(dirs, abspath(export_dir))
check_export_dirs ==
    IF is_saved THEN makedirs(dirs, abspath(export_dir)) ELSE dirs

\* what check_export appends to the run's history
check_export_log ==
    IF is_saved
    THEN <<MakedirsEvent(abspath(export_dir))>>
    ELSE <<ReportEvent("ERROR", NoDir)>>

\* the bookkeeping of an invocation: a new run starts
Invoke(o) ==
    /\ pc = "idle"
    /\ runs < MaxRuns
    /\ runs' = runs + 1
    /\ op' = o
    /\ prev' = [op |-> op, saved |-> (log # <<>> /\ log[1].kind = "makedirs"),
                files |-> files, raised |-> raised]
    /\ dirs0' = dirs
    /\ files0' = files
    /\ raised' = FALSE

Init ==
    /\ is_saved \in BOOLEAN
    /\ as_batch_chk \in BOOLEAN
    /\ as_collection \in BOOLEAN
    /\ export_dir \in ExportDirs
    /\ sel_order \in {"asc", "desc"}
    /\ selected \in SUBSET Objects
    /\ sel0 = selected
    /\ dirs = {}
    /\ files = {}
    /\ pc = "idle"
    /\ op = "none"
    /\ basedir = NoDir
    /\ meshes = {}
    /\ collection_list = <<>>
    /\ fname = ProjectName
    /\ log = <<>>
    /\ raised = FALSE
    /\ dirs0 = {}
    /\ files0 = {}
    /\ runs = 0
    /\ prev = [op |-> "none", saved |-> FALSE, files |-> {}, raised |-> FALSE]

(* --------------------------- user actions ----------------------------- *)
\* The user saves the project (File > Save) between two invocations.
SaveProject ==
    /\ pc = "idle"
    /\ ~is_saved
    /\ is_saved' = TRUE
    /\ UNCHANGED <<scene, selected, dirs, files, pc, op, locals, log, raised,
                   dirs0, files0, runs, prev>>

\* After a run the user selects the same objects again.
ReestablishSelection ==
    /\ pc = "done"
    /\ runs < MaxRuns
    /\ selected' = sel0
    /\ pc' = "idle"
    /\ UNCHANGED <<is_saved, scene, dirs, files, op, locals, log, raised,
                   dirs0, files0, runs, prev>>

(* --------------------------- batch_export_obj ------------------------- *)
\* ExportSelectedAsObjOperator.execute: batch_export_obj up to its loop.
batch_export_obj ==
    /\ Invoke("obj")
    /\ log' = check_export_log
    /\ dirs' = check_export_dirs
    /\ basedir' = check_export_basedir
    /\ IF check_export_result
       THEN /\ meshes' = filter_meshes(selected)
            /\ selected' = select_all_deselect(selected)
            /\ pc' = "obj_loop"
       ELSE /\ pc' = "done"
            /\ UNCHANGED <<meshes, selected>>
    /\ UNCHANGED <<is_saved, scene, files, collection_list, fname>>

\* One iteration of `for mesh in meshes`.
batch_export_obj_loop ==
    /\ pc = "obj_loop"
    /\ meshes # {}
    /\ LET mesh == NextOf(meshes)
           sel1 == select_set(selected, mesh, TRUE)
           filepath == join(basedir, ObjName(mesh), "obj")
           written == obj_export_written(filepath)
       IN /\ log' = Append(log, ExportEvent("OBJ", basedir, filepath, sel1,
                                            written, dirs))
          /\ files' = files \cup written
          /\ selected' = select_set(sel1, mesh, FALSE)
          /\ meshes' = meshes \ {mesh}
    /\ UNCHANGED <<is_saved, scene, dirs, pc, op, basedir, collection_list,
                   fname, raised, dirs0, files0, runs, prev>>

\* The loop is over: the completion report.
batch_export_obj_report ==
    /\ pc = "obj_loop"
    /\ meshes = {}
    /\ log' = Append(log, ReportEvent("INFO", basedir))
    /\ pc' = "done"
    /\ UNCHANGED <<is_saved, scene, selected, dirs, files, op, locals, raised,
                   dirs0, files0, runs, prev>>

(* --------------------------- batch_export_stl ------------------------- *)
\* the collections of one mesh, visited in the host's order
RECURSIVE expand_list(_, _)
expand_list(cl, cs) ==
    IF cs = {} THEN cl
    ELSE LET collection == NextOf(cs)
             known == {cl[i] : i \in 1..Len(cl)}
         IN IF CollName(collection) \in known
            THEN expand_list(cl, cs \ {collection})
            ELSE expand_list(Append(cl, CollName(collection)),
                             cs \ {collection})

RECURSIVE expand_selection(_, _, _)
expand_selection(cl, sel, cs) ==
    IF cs = {} THEN sel
    ELSE LET collection == NextOf(cs)
             known == {cl[i] : i \in 1..Len(cl)}
         IN IF CollName(collection) \in known
            THEN expand_selection(cl, sel, cs \ {collection})
            ELSE expand_selection(Append(cl, CollName(collection)),
                                  sel \cup all_objects(collection),
                                  cs \ {collection})

\* ExportSelectedAsStlOperator.execute: batch_export_stl; the batch branch
\* runs to its end, the merged branch up to its loop or its export.
batch_export_stl ==
    /\ Invoke("stl")
    /\ dirs' = check_export_dirs
    /\ basedir' = check_export_basedir
    /\ IF ~check_export_result
       THEN /\ log' = check_export_log
            /\ pc' = "done"
            /\ UNCHANGED <<selected, files, meshes, collection_list, fname>>
       ELSE IF as_batch_chk
       THEN LET written == stl_batch_written(basedir', selected)
            IN /\ log' = check_export_log \o
                           <<ExportEvent("OBJECT", basedir', NoFile, selected,
                                         written, dirs'),
                             ReportEvent("INFO", basedir')>>
               /\ files' = files \cup written
               /\ selected' = select_all_deselect(selected)
               /\ pc' = "done"
               /\ UNCHANGED <<meshes, collection_list, fname>>
       ELSE IF as_collection
       THEN /\ log' = check_export_log
            /\ collection_list' = <<>>
            /\ meshes' = filter_meshes(selected)
            /\ selected' = select_all_deselect(selected)
            /\ pc' = "stl_collect"
            /\ UNCHANGED <<files, fname>>
       ELSE /\ log' = check_export_log
            /\ fname' = ProjectName
            /\ pc' = "stl_export"
            /\ UNCHANGED <<selected, files, meshes, collection_list>>
    /\ UNCHANGED <<is_saved, scene>>

\* One iteration of `for mesh in meshes` of the collection branch.
batch_export_stl_collect ==
    /\ pc = "stl_collect"
    /\ meshes # {}
    /\ LET mesh == NextOf(meshes)
           collections == users_collection(mesh)
       IN /\ collection_list' = expand_list(collection_list, collections)
          /\ selected' = expand_selection(collection_list, selected,
                                          collections)
          /\ meshes' = meshes \ {mesh}
    /\ UNCHANGED <<is_saved, scene, dirs, files, pc, op, basedir, fname, log,
                   raised, dirs0, files0, runs, prev>>

\* fname = collection_list[0]: an IndexError when the list is empty.
batch_export_stl_fname ==
    /\ pc = "stl_collect"
    /\ meshes = {}
    /\ IF collection_list = <<>>
       THEN /\ raised' = TRUE
            /\ pc' = "done"
            /\ UNCHANGED fname
       ELSE /\ fname' = collection_list[1]
            /\ pc' = "stl_export"
            /\ UNCHANGED raised
    /\ UNCHANGED <<is_saved, scene, selected, dirs, files, op, basedir, meshes,
                   collection_list, log, dirs0, files0, runs, prev>>

\* The merged export, the deselection and the completion report.
batch_export_stl_merged ==
    /\ pc = "stl_export"
    /\ LET filepath == join(basedir, fname, "stl")
           written == stl_merged_written(filepath)
       IN /\ log' = log \o <<ExportEvent("OFF", basedir, filepath, selected,
                                         written, dirs),
                             ReportEvent("INFO", basedir)>>
          /\ files' = files \cup written
    /\ selected' = select_all_deselect(selected)
    /\ pc' = "done"
    /\ UNCHANGED <<is_saved, scene, dirs, op, locals, raised, dirs0, files0,
                   runs, prev>>

Next ==
    \/ SaveProject
    \/ ReestablishSelection
    \/ batch_export_obj
    \/ batch_export_obj_loop
    \/ batch_export_obj_report
    \/ batch_export_stl
    \/ batch_export_stl_collect
    \/ batch_export_stl_fname
    \/ batch_export_stl_merged

Spec == Init /\ [][Next]_vars

(* ======================= properties of a run ========================== *)
\* the host exporter calls of the current run, in order
Exports == SelectSeq(log, LAMBDA e : e.kind = "export")

\* the reports of the current run at one level, in order
Reports(level) ==
    SelectSeq(log, LAMBDA e : e.kind = "report" /\ e.level = level)

\* the files the host exporters wrote during the current run
Written == UNION {log[i].written : i \in DOMAIN log}

\* the mesh objects among the objects selected at invocation
SelectedMeshes == {o \in sel0 : ObjType(o) = "MESH"}

\* the output directory: the project directory joined with scene.export_dir
OutputDir == [project |-> "//", sub |-> export_dir]

\* a run of operator o on a saved project has returned
Finished(o) == pc = "done" /\ op = o /\ is_saved

\* the positions in the log of the events of one kind
Positions(kind) == {i \in DOMAIN log : log[i].kind = kind}

\* C1: on an unsaved project either export action creates no directory,
\* calls no exporter, writes no file, and reports exactly one error and no
\* completion message.
C1_UnsavedNoWrites ==
    (pc = "done" /\ ~is_saved) =>
        /\ Positions("export") = {}
        /\ Positions("makedirs") = {}
        /\ dirs = dirs0
        /\ files = files0
        /\ Len(Reports("ERROR")) = 1
        /\ Len(Reports("INFO")) = 0

C1_Witness ==
    /\ pc = "done" /\ ~is_saved /\ op = "stl"
    /\ Cardinality(SelectedMeshes) >= 2
    /\ as_batch_chk

C3_OneSelectedPerCall ==
    \A i \in DOMAIN log :
        (log[i].kind = "export" /\ log[i].mode = "OBJ") =>
            /\ Cardinality(log[i].selected) <= 1
            /\ \E m \in SelectedMeshes :
                  /\ log[i].selected = {m}
                  /\ log[i].filepath.name = ObjName(m)

C3_Witness ==
    /\ op = "obj"
    /\ Cardinality(sel0) >= 4
    /\ Len(Exports) >= 2

\* C4: a non-mesh object selected at invocation is never selected when a
\* host exporter is called and never names an output file.
C4_OnlyMeshesExported ==
    \A i \in DOMAIN log : \A o \in sel0 :
        (log[i].kind = "export" /\ ObjType(o) # "MESH") =>
            /\ o \notin log[i].selected
            /\ \A f \in log[i].written : f.name # ObjName(o)

\* C5: on a saved project with the batch option on, the STL action calls
\* the exporter exactly once, in its per-object batch mode, with the
\* selection as it was at invocation; the selection is empty afterwards.
C5_StlBatchOneCall ==
    (Finished("stl") /\ as_batch_chk) =>
        /\ Len(Exports) = 1
        /\ Exports[1].mode = "OBJECT"
        /\ Exports[1].selected = sel0
        /\ selected = {}

C5_Witness ==
    /\ Finished("stl") /\ as_batch_chk
    /\ Cardinality(sel0) >= 3
    /\ Len(Exports) = 1

\* the collections the selected meshes are directly linked to
OwningCollections == UNION {users_collection(m) : m \in SelectedMeshes}

\* C6: in merged mode with the collection option on, when the selected
\* meshes belong to two distinct collections, the exporter is called once,
\* with exactly the members of both collections selected, and writes one
\* file.
C6_TwoCollectionsUnion ==
    (Finished("stl") /\ ~as_batch_chk /\ as_collection
        /\ Cardinality(OwningCollections) = 2) =>
        /\ Len(Exports) = 1
        /\ Exports[1].selected =
              UNION {all_objects(c) : c \in OwningCollections}
        /\ Cardinality(Written) = 1

\* C7: after every run on a saved project the selection is empty and
\* exactly one completion message naming the output directory has been
\* reported, after the last exporter call.
C7_ClearedAndReported ==
    (pc = "done" /\ is_saved) =>
        /\ selected = {}
        /\ Len(Reports("INFO")) = 1
        /\ Reports("INFO")[1].dir = OutputDir
        /\ \A i \in Positions("report") : \A j \in Positions("export") : j < i

\* C8: on a saved project with no mesh selected, every action and mode
\* writes no file, raises no error and reports the completion message.
C8_NoMeshNoFiles ==
    (pc = "done" /\ is_saved /\ SelectedMeshes = {}) =>
        /\ Written = {}
        /\ ~raised
        /\ Len(Reports("ERROR")) = 0
        /\ Len(Reports("INFO")) = 1

\* C9: the same action run a second time on a saved project, with the
\* same options and selection, completes without error both times, creates
\* no directory the second time and leaves the same set of files.
C9_RerunSameFiles ==
    (pc = "done" /\ is_saved /\ runs >= 2 /\ prev.op = op /\ prev.saved) =>
        /\ ~raised
        /\ ~prev.raised
        /\ Len(Reports("ERROR")) = 0
        /\ dirs = dirs0
        /\ files = prev.files

\* C10: the output directory exists at every exporter call, and its
\* creation comes before the first call.
C10_DirBeforeExport ==
    \A i \in Positions("export") :
        /\ log[i].dir = OutputDir
        /\ OutputDir \in log[i].dirs
        /\ \E j \in Positions("makedirs") : j < i /\ log[j].dir = OutputDir

C10_Witness ==
    /\ Len(Exports) >= 1
    /\ dirs0 = {}
    /\ export_dir = "out"
    /\ op = "stl" /\ ~as_batch_chk /\ as_collection

====
